---- MODULE Spec2Model ----
(***************************************************************************)
(* Model of aq-dashboard-pm25-kathmandu:                                   *)
(*   src/fetch_pm25_daily.py  the daily ingestion script (rate limiter,    *)
(*                            paginated fetch, sensor filter, merge/prune)  *)
(*   src/app.py               the dashboard's time handling and per-hour   *)
(*                            aggregation                                   *)
(* An instant is an integer: the seconds since a UTC midnight.             *)
(***************************************************************************)
EXTENDS Integers, Sequences, FiniteSets, TLC

VARIABLES
    \* the process clock (time.time(), datetime.now, pd.Timestamp.now)
    now,
    \* fetch_pm25_daily.py module state
    REQUEST_COUNT, REQUEST_TIMESTAMPS,
    end_date, pc, page, locations, sensors, sensor_idx, records, error,
    \* the parquet file DATA_FILE
    store,
    \* the items the server still has to give, over all runs
    locationsLeft, rowsLeft,
    \* history of the run, kept for the properties only
    issued, advances, served, run, storeAtStart, writes,
    \* app.py module state
    app_pc, df, days_option, max_date, cutoff_date, df_filtered,
    hourly_means, peak_hour, cleanest_hour, hourly_stats

limVars == <<now, REQUEST_COUNT, REQUEST_TIMESTAMPS, issued, advances>>
runVars == <<end_date, pc, page, locations, sensors, sensor_idx, records, error,
             store, locationsLeft, rowsLeft, served, run, storeAtStart, writes>>
appVars == <<app_pc, df, days_option, max_date, cutoff_date, df_filtered,
             hourly_means, peak_hour, cleanest_hour, hourly_stats>>
vars == <<limVars, runVars, appVars>>

(***************************************************************************)
(* Program constants scaled down for checking, and the bounds of the model *)
(***************************************************************************)
\* fetch_pm25_daily.py:17 sets 50; the model keeps the cap small
MAX_REQUESTS_PER_MINUTE == 2
\* fetch_pm25_daily.py:16 sets 1000; the model keeps the page size small
LIMIT == 2
\* the 60 of fetch_pm25_daily.py:29 and :33, in seconds
WINDOW_SECONDS == 60
\* the days=14 of fetch_pm25_daily.py:148
RETENTION_DAYS == 14
DAY_SECONDS == 24 * 60 * 60
\* throttled_get calls in one limiter behaviour
MaxCalls == 6
\* clock advances between calls in one limiter behaviour
MaxAdvances == 3
\* locations and measurement rows the server serves in one behaviour
MaxLocations == 3
MaxRows == 3
\* runs of the ingestion script in one behaviour
MaxRuns == 2
\* rows of the table the dashboard loads
MaxAppRows == 3

(***************************************************************************)
(* Helpers on sequences                                                    *)
(***************************************************************************)
RECURSIVE SeqSum(_)
SeqSum(s) == IF s = <<>> THEN 0 ELSE Head(s) + SeqSum(Tail(s))

RECURSIVE Flatten(_)
Flatten(ss) == IF ss = <<>> THEN <<>> ELSE Head(ss) \o Flatten(Tail(ss))

Count(s, x) == Cardinality({i \in 1..Len(s) : s[i] = x})

Range(s) == {s[i] : i \in 1..Len(s)}

HasKey(obj, k) == k \in DOMAIN obj

(***************************************************************************)
(* RATE LIMIT: throttled_get, lines 22-42                                  *)
(***************************************************************************)
\* line 29: the age beyond which the front timestamp is discarded
IsExpired(t, oldest) == t - oldest > WINDOW_SECONDS

\* lines 29-30: while REQUEST_TIMESTAMPS and now - REQUEST_TIMESTAMPS[0] > 60: popleft()
RECURSIVE DiscardOld(_, _)
DiscardOld(q, t) ==
    IF q # <<>> /\ IsExpired(t, Head(q)) THEN DiscardOld(Tail(q), t) ELSE q

\* lines 32-35: the time slept (0 when the queue is below the cap, or nothing is left to wait)
SleepTime(q, t) ==
    IF Len(q) >= MAX_REQUESTS_PER_MINUTE
    THEN LET sleep_time == WINDOW_SECONDS - (t - Head(q))
         IN IF sleep_time > 0 THEN sleep_time ELSE 0
    ELSE 0

\* lines 26-38: the limiter part of throttled_get; the timestamp appended is the
\* clock read after the sleep
Throttle ==
    LET q  == DiscardOld(REQUEST_TIMESTAMPS, now)
        t2 == now + SleepTime(q, now)
    IN /\ now' = t2
       /\ REQUEST_COUNT' = REQUEST_COUNT + 1
       /\ REQUEST_TIMESTAMPS' = Append(q, t2)
       /\ issued' = Append(issued, t2)
       /\ UNCHANGED advances

(***************************************************************************)
(* JSON values of the OpenAQ responses.  An object is a record; a missing  *)
(* key is a key outside its DOMAIN; JSON null is JsonNull.  A cell of the  *)
(* timestamp column is tagged: the API's ISO-8601 text of instant t, text  *)
(* that is no date, a datetime64[ns, UTC] value, or NaT.                   *)
(***************************************************************************)
JsonNull == [json_null |-> TRUE]
None == "None"
IsObject(v) == ~HasKey(v, "json_null")

IsoText(t) == [kind |-> "iso", t |-> t]
BadText == [kind |-> "text", t |-> 0]
Timestamp(t) == [kind |-> "ts", t |-> t]
NaT == [kind |-> "NaT", t |-> 0]

\* the retention span of line 148, in seconds
RetentionSpan == RETENTION_DAYS * DAY_SECONDS
\* the clock when the first run starts; its cutoff is instant 0
T0 == RetentionSpan
TsOld == T0 - RetentionSpan
TsNew == T0

Coordinates == [latitude |-> 27, longitude |-> 85]
SensorObj(id, param) == [id |-> id, parameter |-> [name |-> param]]
LocA == [name |-> "A", coordinates |-> Coordinates,
         sensors |-> <<SensorObj(1, "pm25")>>]
LocB == [name |-> "B", coordinates |-> Coordinates,
         sensors |-> <<[id |-> 2], SensorObj(3, "no2"), SensorObj(4, "pm25")>>]
LocNoCoordinates == [name |-> "C", sensors |-> <<SensorObj(5, "pm25")>>]
LocNullParameter == [name |-> "D", coordinates |-> Coordinates,
                     sensors |-> <<[id |-> 6, parameter |-> JsonNull]>>]
LocationChoices == {LocA, LocB, LocNoCoordinates, LocNullParameter}

Row(utc, value) == [period |-> [datetimeFrom |-> [utc |-> utc]], value |-> value]
RowOld == Row(IsoText(TsOld), 10)
RowNew == Row(IsoText(TsNew), 50)
RowBadTs == Row(BadText, 20)
RowNoUtc == [period |-> [datetimeFrom |-> [local |-> IsoText(TsNew)]], value |-> 30]
RowNoValue == [period |-> [datetimeFrom |-> [utc |-> IsoText(TsNew)]]]
RowChoices == {RowOld, RowNew, RowBadTs, RowNoUtc, RowNoValue}

\* the pages a server may answer with: at most LIMIT items, at most `left` more
PagesOver(S, left) ==
    LET k == IF left < LIMIT THEN left ELSE LIMIT
    IN UNION {[1..n -> S] : n \in 0..k}

(***************************************************************************)
(* FILTER PM2.5 SENSORS, lines 76-87                                       *)
(***************************************************************************)
\* line 80: loc.get("sensors", [])
SensorsOf(loc) == IF HasKey(loc, "sensors") THEN loc.sensors ELSE <<>>

\* lines 79-80: the (location, sensor) pairs in the order the two loops visit them
Visits(locs) ==
    Flatten([i \in 1..Len(locs) |->
                [j \in 1..Len(SensorsOf(locs[i])) |->
                    [loc |-> locs[i], s |-> SensorsOf(locs[i])[j]]]])

\* line 81: s.get("parameter", {}).get("name"); .get on a non-object raises
ParameterName(s) ==
    IF ~HasKey(s, "parameter") THEN None
    ELSE IF ~IsObject(s.parameter) THEN "AttributeError: 'get'"
    ELSE IF HasKey(s.parameter, "name") THEN s.parameter.name ELSE None

\* lines 83-86: the subscripts s["id"], loc["name"], loc["coordinates"][...],
\* evaluated in this order; the first missing key raises
ProjectionError(v) ==
    IF ~HasKey(v.s, "id") THEN "KeyError: 'id'"
    ELSE IF ~HasKey(v.loc, "name") THEN "KeyError: 'name'"
    ELSE IF ~HasKey(v.loc, "coordinates") THEN "KeyError: 'coordinates'"
    ELSE IF ~HasKey(v.loc.coordinates, "latitude") THEN "KeyError: 'latitude'"
    ELSE IF ~HasKey(v.loc.coordinates, "longitude") THEN "KeyError: 'longitude'"
    ELSE "none"

\* lines 81-87 for one sensor of one location
VisitOutcome(v) ==
    LET name == ParameterName(v.s)
    IN IF name = "AttributeError: 'get'" THEN name
       ELSE IF name # "pm25" THEN "skip"
       ELSE IF ProjectionError(v) = "none" THEN "append" ELSE ProjectionError(v)

SensorRecord(v) ==
    [sensor_id |-> v.s.id, location |-> v.loc.name,
     latitude |-> v.loc.coordinates.latitude,
     longitude |-> v.loc.coordinates.longitude]

\* lines 77-87: the sensors appended until the loops end or a subscript raises
RECURSIVE FilterFrom(_, _)
FilterFrom(vs, acc) ==
    IF vs = <<>> THEN [error |-> "none", sensors |-> acc]
    ELSE LET o == VisitOutcome(Head(vs))
         IN IF o = "skip" THEN FilterFrom(Tail(vs), acc)
            ELSE IF o = "append"
                 THEN FilterFrom(Tail(vs), Append(acc, SensorRecord(Head(vs))))
                 ELSE [error |-> o, sensors |-> acc]

FilterSensorsOf(locs) == FilterFrom(Visits(locs), <<>>)

(***************************************************************************)
(* Pagination, lines 55-74 and 94-124                                      *)
(***************************************************************************)
\* lines 66 and 108: if not results: break
EmptyPage(results) == results = <<>>
\* a page size test that is off by one
ShortPageOffByOne(results) == Len(results) < LIMIT - 1
\* lines 71 and 121: if len(results) < LIMIT: break
ShortPage(results) == Len(results) < LIMIT
\* lines 74 and 124: page += 1
NextPage(p) == p + 1

(***************************************************************************)
(* Measurement row projection, lines 111-119                               *)
(***************************************************************************)
\* lines 113-114: row["period"]["datetimeFrom"]["utc"] and row["value"] raise KeyError
RowError(row) ==
    IF ~HasKey(row, "period") THEN "KeyError: 'period'"
    ELSE IF ~HasKey(row.period, "datetimeFrom") THEN "KeyError: 'datetimeFrom'"
    ELSE IF ~HasKey(row.period.datetimeFrom, "utc") THEN "KeyError: 'utc'"
    ELSE IF ~HasKey(row, "value") THEN "KeyError: 'value'"
    ELSE "none"
RowRaises(row) == RowError(row) # "none"

ProjectRow(row, s) ==
    [timestamp_utc |-> row.period.datetimeFrom.utc, value |-> row.value,
     sensor_id |-> s.sensor_id, location |-> s.location,
     latitude |-> s.latitude, longitude |-> s.longitude]

\* lines 111-119: the records appended until the page ends or a subscript raises
RECURSIVE ProjectRows(_, _, _)
ProjectRows(rows, s, acc) ==
    IF rows = <<>> THEN [error |-> "none", records |-> acc]
    ELSE IF RowRaises(Head(rows)) THEN [error |-> RowError(Head(rows)), records |-> acc]
    ELSE ProjectRows(Tail(rows), s, Append(acc, ProjectRow(Head(rows), s)))

(***************************************************************************)
(* DATAFRAME, KEEP LAST 14 DAYS, SAVE: lines 126-153                       *)
(***************************************************************************)
RecordColumns ==
    {"timestamp_utc", "value", "sensor_id", "location", "latitude", "longitude"}
\* line 127: pd.DataFrame(records); an empty list gives a frame with no columns
DataFrame(recs) ==
    [columns |-> IF recs = <<>> THEN {} ELSE RecordColumns, rows |-> recs]
\* line 133: pd.concat([old_df, new_df], ignore_index=True)
Concat(a, b) == [columns |-> a.columns \cup b.columns, rows |-> a.rows \o b.rows]
\* lines 138-142: pd.to_datetime(..., utc=True, errors="coerce") of one cell
ToDatetime(cell) == IF cell.kind \in {"iso", "ts"} THEN Timestamp(cell.t) ELSE NaT
CoerceRows(rows) ==
    [i \in 1..Len(rows) |-> [rows[i] EXCEPT !.timestamp_utc = ToDatetime(@)]]
\* a dropna that also drops rows equal to a later row
RECURSIVE DropNaAndDuplicates(_)
DropNaAndDuplicates(rows) ==
    IF rows = <<>> THEN <<>>
    ELSE LET rest == DropNaAndDuplicates(Tail(rows))
         IN IF Head(rows).timestamp_utc = NaT \/ Head(rows) \in Range(rest)
            THEN rest ELSE <<Head(rows)>> \o rest
\* line 145: df.dropna(subset=["timestamp_utc"])
RECURSIVE DropNa(_)
DropNa(rows) ==
    IF rows = <<>> THEN <<>>
    ELSE IF Head(rows).timestamp_utc = NaT THEN DropNa(Tail(rows))
    ELSE <<Head(rows)>> \o DropNa(Tail(rows))
\* line 148: cutoff = pd.Timestamp.now(tz="UTC") - pd.Timedelta(days=14)
CutoffAt(t) == t - RetentionSpan
\* a comparison that keeps one more day
RetainedExtraDay(ts, cutoff) == ts.t >= cutoff - DAY_SECONDS
\* line 149: df["timestamp_utc"] >= cutoff
Retained(ts, cutoff) == ts.t >= cutoff
RECURSIVE KeepRecent(_, _)
KeepRecent(rows, cutoff) ==
    IF rows = <<>> THEN <<>>
    ELSE IF Retained(Head(rows).timestamp_utc, cutoff)
         THEN <<Head(rows)>> \o KeepRecent(Tail(rows), cutoff)
         ELSE KeepRecent(Tail(rows), cutoff)

NoFile == [exists |-> FALSE, df |-> DataFrame(<<>>)]
File(frame) == [exists |-> TRUE, df |-> frame]

(***************************************************************************)
(* Initial states                                                          *)
(***************************************************************************)
InitLimiter ==
    /\ now = T0
    /\ REQUEST_COUNT = 0
    /\ REQUEST_TIMESTAMPS = <<>>
    /\ issued = <<>>
    /\ advances = 0

InitRun(first_pc) ==
    /\ end_date = now
    /\ pc = first_pc
    /\ page = 1
    /\ locations = <<>>
    /\ sensors = <<>>
    /\ sensor_idx = 0
    /\ records = <<>>
    /\ error = "none"
    /\ store = NoFile
    /\ locationsLeft = MaxLocations
    /\ rowsLeft = MaxRows
    /\ served = <<>>
    /\ run = 1
    /\ storeAtStart = NoFile
    /\ writes = 0

InitAppOff ==
    /\ app_pc = "off"
    /\ df = DataFrame(<<>>)
    /\ days_option = "Last 7 Days"
    /\ max_date = 0
    /\ cutoff_date = 0
    /\ df_filtered = <<>>
    /\ hourly_means = <<>>
    /\ peak_hour = 0
    /\ cleanest_hour = 0
    /\ hourly_stats = <<>>

(***************************************************************************)
(* The rate limiter on its own: any caller, any non-decreasing clock       *)
(***************************************************************************)
ClockSteps == {1, WINDOW_SECONDS - 1}

\* throttled_get, lines 25-42, whatever the response
ThrottledGet ==
    /\ REQUEST_COUNT < MaxCalls
    /\ Throttle
    /\ UNCHANGED <<runVars, appVars>>

\* time passing between two calls
ClockAdvance ==
    /\ advances < MaxAdvances
    /\ \E d \in ClockSteps : now' = now + d
    /\ advances' = advances + 1
    /\ UNCHANGED <<REQUEST_COUNT, REQUEST_TIMESTAMPS, issued, runVars, appVars>>

InitLimiterOnly == InitLimiter /\ InitRun("idle") /\ InitAppOff
NextLimiter == ThrottledGet \/ ClockAdvance
SpecLimiter == InitLimiterOnly /\ [][NextLimiter]_vars

(***************************************************************************)
(* The ingestion script, one action per loop iteration or section          *)
(***************************************************************************)
Response(endpoint, sensor_id, ok, results) ==
    [endpoint |-> endpoint, sensor_id |-> sensor_id, drain |-> sensor_idx,
     page |-> page, ok |-> ok, results |-> results]

\* a non-success status taken for the end of the data
HttpErrorSwallowed(endpoint, sensor_id) ==
    /\ Throttle
    /\ served' = Append(served, Response(endpoint, sensor_id, FALSE, <<>>))
    /\ pc' = "dataframe"
    /\ UNCHANGED <<end_date, page, locations, sensors, sensor_idx, records, error,
                   store, locationsLeft, rowsLeft, run, storeAtStart, writes,
                   appVars>>

\* line 41: r.raise_for_status() on a non-success status ends the script
HttpError(endpoint, sensor_id) ==
    /\ Throttle
    /\ served' = Append(served, Response(endpoint, sensor_id, FALSE, <<>>))
    /\ pc' = "failed"
    /\ error' = "HTTPError"
    /\ UNCHANGED <<end_date, page, locations, sensors, sensor_idx, records,
                   store, locationsLeft, rowsLeft, run, storeAtStart, writes,
                   appVars>>

\* lines 55-74: one iteration of the locations loop
FetchLocationsPage ==
    /\ pc = "locations"
    /\ \/ HttpError("locations", 0)
       \/ \E results \in PagesOver(LocationChoices, locationsLeft) :
            /\ Throttle
            /\ locationsLeft' = locationsLeft - Len(results)
            /\ served' = Append(served, Response("locations", 0, TRUE, results))
            /\ locations' = locations \o results
            /\ IF EmptyPage(results) \/ ShortPage(results)
               THEN pc' = "filter" /\ page' = page
               ELSE pc' = pc /\ page' = NextPage(page)
            /\ UNCHANGED <<end_date, sensors, sensor_idx, records, error, store,
                           rowsLeft, run, storeAtStart, writes, appVars>>

\* lines 76-87, then the head of the for loop of line 92
FilterSensors ==
    /\ pc = "filter"
    /\ LET f == FilterSensorsOf(locations)
       IN /\ sensors' = f.sensors
          /\ error' = f.error
          /\ IF f.error # "none" THEN pc' = "failed" /\ UNCHANGED <<page, sensor_idx>>
             ELSE IF f.sensors = <<>>
                  THEN pc' = "dataframe" /\ UNCHANGED <<page, sensor_idx>>
                  ELSE pc' = "measurements" /\ page' = 1 /\ sensor_idx' = 1
    /\ UNCHANGED <<limVars, end_date, locations, records, store, locationsLeft,
                   rowsLeft, served, run, storeAtStart, writes, appVars>>

\* lines 92-93 after a break: the next sensor, or the end of the for loop
NextSensor ==
    IF sensor_idx < Len(sensors)
    THEN pc' = pc /\ sensor_idx' = sensor_idx + 1 /\ page' = 1
    ELSE pc' = "dataframe" /\ sensor_idx' = sensor_idx /\ page' = page

\* lines 94-124: one iteration of the measurements loop of the current sensor
FetchMeasurementsPage ==
    /\ pc = "measurements"
    /\ LET s == sensors[sensor_idx]
       IN \/ HttpError("measurements", s.sensor_id)
          \/ \E results \in PagesOver(RowChoices, rowsLeft) :
               LET p == ProjectRows(results, s, <<>>)
               IN /\ Throttle
                  /\ rowsLeft' = rowsLeft - Len(results)
                  /\ served' = Append(served,
                                  Response("measurements", s.sensor_id, TRUE, results))
                  /\ records' = records \o p.records
                  /\ error' = p.error
                  /\ IF p.error # "none"
                     THEN pc' = "failed" /\ UNCHANGED <<page, sensor_idx>>
                     ELSE IF EmptyPage(results) \/ ShortPage(results)
                          THEN NextSensor
                          ELSE pc' = pc /\ page' = NextPage(page)
                               /\ sensor_idx' = sensor_idx
                  /\ UNCHANGED <<end_date, locations, sensors, store, locationsLeft,
                                 run, storeAtStart, writes, appVars>>

\* lines 126-153: build the frame, merge with the file, coerce, prune, save
MergeAndSave ==
    /\ pc = "dataframe"
    /\ LET new_df == DataFrame(records)
           merged == IF store.exists THEN Concat(store.df, new_df) ELSE new_df
           cutoff == CutoffAt(now)
           kept   == KeepRecent(DropNa(CoerceRows(merged.rows)), cutoff)
       IN IF "timestamp_utc" \in merged.columns
          THEN /\ store' = File([columns |-> merged.columns, rows |-> kept])
               /\ writes' = writes + 1
               /\ pc' = "done"
               /\ error' = error
          ELSE /\ pc' = "failed"
               /\ error' = "KeyError: 'timestamp_utc'"
               /\ UNCHANGED <<store, writes>>
    /\ UNCHANGED <<limVars, end_date, page, locations, sensors, sensor_idx,
                   records, locationsLeft, rowsLeft, served, run, storeAtStart,
                   appVars>>

\* the scheduler starts the script again: a fresh process over the same file
RunGaps == {0, RetentionSpan}
StartRun ==
    /\ pc \in {"done", "failed"}
    /\ run < MaxRuns
    /\ \E gap \in RunGaps :
         /\ now' = now + gap
         /\ end_date' = now + gap
    /\ REQUEST_COUNT' = 0
    /\ REQUEST_TIMESTAMPS' = <<>>
    /\ issued' = <<>>
    /\ pc' = "locations"
    /\ page' = 1
    /\ locations' = <<>>
    /\ sensors' = <<>>
    /\ sensor_idx' = 0
    /\ records' = <<>>
    /\ error' = "none"
    /\ served' = <<>>
    /\ run' = run + 1
    /\ storeAtStart' = store
    /\ writes' = 0
    /\ UNCHANGED <<advances, store, locationsLeft, rowsLeft, appVars>>

Init == InitLimiter /\ InitRun("locations") /\ InitAppOff
Next ==
    \/ FetchLocationsPage
    \/ FilterSensors
    \/ FetchMeasurementsPage
    \/ MergeAndSave
    \/ StartRun
Spec == Init /\ [][Next]_vars

(***************************************************************************)
(* Properties of the ingestion script                                      *)
(***************************************************************************)
\* the requests of one paginated drain, in the order issued: drain 0 is the
\* locations loop, drain k the measurements loop of sensors[k]
Drain(k) == SelectSeq(served, LAMBDA e : e.drain = k)
PagesOf(k) == [i \in 1..Len(Drain(k)) |-> Drain(k)[i].results]
\* the loop of drain k has been left by a break
DrainEnded(k) ==
    IF k = 0
    THEN pc \in {"filter", "measurements", "dataframe", "done"}
         \/ (pc = "failed" /\ Len(sensors) > 0)
         \/ (pc = "failed" /\ error # "HTTPError")
    ELSE \/ pc \in {"dataframe", "done"}
         \/ (pc \in {"measurements", "failed"} /\ k < sensor_idx)
RecordsOf(k) == ProjectRows(Flatten(PagesOf(k)), sensors[k], <<>>).records

\* C2: every paginated drain requests pages 1, 2, ... in order; each page before
\* the last holds exactly LIMIT items; once the drain has ended its last page
\* holds fewer than LIMIT items (no request follows a short page); and what was
\* collected is the concatenation of the pages in page order, for the locations
\* loop and for each per-sensor measurements loop.
PaginationTermination ==
    /\ \A k \in 0..Len(sensors) :
         LET d == Drain(k)
         IN /\ \A i \in 1..Len(d) : d[i].page = i
            /\ \A i \in 1..(Len(d) - 1) : d[i].ok /\ Len(d[i].results) = LIMIT
            /\ DrainEnded(k) =>
                 /\ Len(d) >= 1
                 /\ d[Len(d)].ok
                 /\ Len(d[Len(d)].results) < LIMIT
    /\ locations = Flatten(PagesOf(0))
    /\ pc \in {"dataframe", "done"} =>
         records = Flatten([k \in 1..Len(sensors) |-> RecordsOf(k)])

\* a finished run whose locations loop and one measurements loop took two pages
PaginationWitness ==
    /\ pc = "done"
    /\ Len(Drain(0)) = 2
    /\ Len(sensors) >= 2
    /\ \E k \in 1..Len(sensors) : Len(Drain(k)) = 2 /\ Len(RecordsOf(k)) = LIMIT + 1

StoredRows == store.df.rows
\* the rows a merge starts from: the file as the run found it, then the new records
MergeInput == CoerceRows(storeAtStart.df.rows \o records)

\* C3: the table a run has written holds no row whose timestamp is before that
\* run's cutoff (now - 14 days), and every input row whose timestamp is exactly
\* the cutoff is in it.
RetentionInvariant ==
    pc = "done" =>
        LET input == MergeInput
        IN /\ \A i \in 1..Len(StoredRows) :
                StoredRows[i].timestamp_utc.t >= now - RETENTION_DAYS * DAY_SECONDS
           /\ \A i \in 1..Len(input) :
                input[i].timestamp_utc = Timestamp(now - RETENTION_DAYS * DAY_SECONDS)
                   => input[i] \in Range(StoredRows)

\* a written table that kept a row at the cutoff and dropped an older one
RetentionWitness ==
    /\ pc = "done"
    /\ \E i \in 1..Len(StoredRows) :
         StoredRows[i].timestamp_utc.t = now - RETENTION_DAYS * DAY_SECONDS
    /\ \E i \in 1..Len(MergeInput) :
         /\ MergeInput[i].timestamp_utc # NaT
         /\ MergeInput[i].timestamp_utc.t < now - RETENTION_DAYS * DAY_SECONDS

\* C4: a request that returned a non-success status is the last request of its
\* run, the run has failed, and the file is what it was when the run started;
\* the file is written at most once per run, only by a run none of whose
\* requests failed and all of whose loops have ended.
FailFastNoPartialCommit ==
    /\ \A i \in 1..Len(served) :
         ~served[i].ok => /\ i = Len(served)
                          /\ pc = "failed"
                          /\ store = storeAtStart
    /\ writes <= 1
    /\ pc = "failed" => writes = 0 /\ store = storeAtStart
    /\ writes = 1 => /\ pc = "done"
                     /\ \A i \in 1..Len(served) : served[i].ok
                     /\ \A k \in 0..Len(sensors) : DrainEnded(k)
    /\ writes = 0 => store = storeAtStart

\* the second run fails on the second page of a sensor, over a file the first
\* run wrote, with records already collected
FailFastWitness ==
    /\ run = 2
    /\ storeAtStart.exists
    /\ Len(storeAtStart.df.rows) > 0
    /\ pc = "failed"
    /\ error = "HTTPError"
    /\ Len(records) > 0
    /\ served[Len(served)].endpoint = "measurements"
    /\ served[Len(served)].page = 2

\* C10: the table a run has written holds every row value as often as the file
\* the run found plus the new records hold it, when its timestamp coerces and is
\* at or after the cutoff, and not at all otherwise: nothing is deduplicated.
MergeKeepsMultiset ==
    pc = "done" =>
        LET input == MergeInput
        IN \A x \in Range(input) \cup Range(StoredRows) :
              Count(StoredRows, x) =
                  IF /\ x.timestamp_utc # NaT
                     /\ x.timestamp_utc.t >= now - RETENTION_DAYS * DAY_SECONDS
                  THEN Count(input, x) ELSE 0

\* the second run fetched a record the file already held, and the table it wrote
\* holds that record twice
MergeDuplicateWitness ==
    /\ pc = "done"
    /\ run = 2
    /\ \E x \in Range(StoredRows) :
         /\ Count(storeAtStart.df.rows, x) = 1
         /\ Count(CoerceRows(records), x) = 1
         /\ Count(StoredRows, x) = 2

\* the rows of a page that project, and those that do not
WellFormed(rows) == SelectSeq(rows, LAMBDA r : ~RowRaises(r))
MixedPage(e) ==
    /\ e.endpoint = "measurements"
    /\ \E i \in 1..Len(e.results) : RowRaises(e.results[i])
    /\ \E i \in 1..Len(e.results) : ~RowRaises(e.results[i])
RowErrors == {RowError(r) : r \in RowChoices} \ {"none"}

\* C5: a measurements page that holds rows lacking period.datetimeFrom.utc (or
\* value) next to well-formed rows does not fail the run: exactly its well-formed
\* rows become records, and the run goes on to the merge.
MalformedRecordTolerance ==
    (\E i \in 1..Len(served) : MixedPage(served[i])) =>
        /\ ~(pc = "failed" /\ error \in RowErrors)
        /\ pc \in {"dataframe", "done"} =>
             records = Flatten([k \in 1..Len(sensors) |->
                           ProjectRows(WellFormed(Flatten(PagesOf(k))),
                                       sensors[k], <<>>).records])

\* C8: a run that reaches the merge with no new record completes, whether the
\* file exists or not, and writes the prior table pruned to the cutoff.
MergeWithNoNewRecords ==
    records = <<>> =>
        /\ ~(pc = "failed" /\ error = "KeyError: 'timestamp_utc'")
        /\ pc = "done" =>
             /\ store.exists
             /\ StoredRows = SelectSeq(storeAtStart.df.rows,
                    LAMBDA r : r.timestamp_utc.t >= now - RETENTION_DAYS * DAY_SECONDS)

\* the well-formed pm25 sensors of the well-formed locations, in visiting order
RECURSIVE TolerantSensors(_)
TolerantSensors(vs) ==
    IF vs = <<>> THEN <<>>
    ELSE IF VisitOutcome(Head(vs)) = "append"
         THEN <<SensorRecord(Head(vs))>> \o TolerantSensors(Tail(vs))
         ELSE TolerantSensors(Tail(vs))
FilterErrors ==
    {"AttributeError: 'get'", "KeyError: 'id'", "KeyError: 'name'",
     "KeyError: 'coordinates'", "KeyError: 'latitude'", "KeyError: 'longitude'"}

\* C9: sensor discovery does not fail on a location without coordinates or name
\* nor on a sensor whose parameter is missing or no object; it discovers every
\* well-formed pm25 sensor of the other locations, in the order returned.
DiscoveryToleratesMalformed ==
    /\ ~(pc = "failed" /\ error \in FilterErrors)
    /\ pc \in {"measurements", "dataframe", "done"} =>
         sensors = TolerantSensors(Visits(locations))

(***************************************************************************)
(* Property of the rate limiter                                            *)
(***************************************************************************)
\* the requests whose recorded timestamp lies in the 60-second window from t
InWindow(t) == {j \in 1..Len(issued) : t <= issued[j] /\ issued[j] < t + WINDOW_SECONDS}

\* C1: in every 60-second window (a window that starts at a recorded timestamp
\* is the worst case) at most MAX_REQUESTS_PER_MINUTE request timestamps were
\* recorded, under any non-decreasing clock.
RateLimitInvariant ==
    \A i \in 1..Len(issued) : Cardinality(InWindow(issued[i])) <= MAX_REQUESTS_PER_MINUTE

(***************************************************************************)
(* app.py: load, time handling, trailing window, per-hour statistics       *)
(***************************************************************************)
HOUR_SECONDS == 60 * 60
\* line 68: pd.Timedelta(hours=5, minutes=45)
NptOffset == 5 * HOUR_SECONDS + 45 * 60
\* an offset that loses the minutes
ToNptHoursOnly(t) == t + 5 * HOUR_SECONDS
\* line 68: timestamp_utc + the Nepal offset
ToNpt(t) == t + NptOffset
\* line 69: .dt.hour
HourOf(t) == (t \div HOUR_SECONDS) % 24
\* line 70: .dt.strftime('%Y-%m-%d'), as the day number
DateOf(t) == t \div DAY_SECONDS

\* lines 66-70: the columns added to one row
WithLocalTime(r) ==
    LET utc == ToDatetime(r.timestamp_utc)
        npt == ToNpt(utc.t)
    IN [timestamp_utc |-> utc, value |-> r.value, sensor_id |-> r.sensor_id,
        location |-> r.location, latitude |-> r.latitude, longitude |-> r.longitude,
        timestamp_npt |-> npt, hour |-> HourOf(npt), date_str |-> DateOf(npt)]

\* line 59: df.empty
IsEmptyFrame(frame) == frame.columns = {} \/ frame.rows = <<>>

MaxOf(S) == CHOOSE x \in S : \A y \in S : y <= x
MinOf(S) == CHOOSE x \in S : \A y \in S : x <= y

RECURSIVE SortedSeqOf(_)
SortedSeqOf(S) ==
    IF S = {} THEN <<>> ELSE <<MinOf(S)>> \o SortedSeqOf(S \ {MinOf(S)})

RECURSIVE InsertSorted(_, _)
InsertSorted(x, s) ==
    IF s = <<>> THEN <<x>>
    ELSE IF x <= Head(s) THEN <<x>> \o s
    ELSE <<Head(s)>> \o InsertSorted(x, Tail(s))

RECURSIVE SortValues(_)
SortValues(s) == IF s = <<>> THEN <<>> ELSE InsertSorted(Head(s), SortValues(Tail(s)))

\* line 83: cutoff_days
CutoffDays(option) == IF option = "Last 7 Days" THEN 7 ELSE 14
\* line 85: df["timestamp_npt"] > cutoff_date
InTrailingWindow(npt, cutoff) == npt > cutoff
TrailingRows(rows, cutoff) ==
    SelectSeq(rows, LAMBDA r : InTrailingWindow(r.timestamp_npt, cutoff))

\* groupby("hour")["value"]: the values of one group, and the group keys
GroupValues(rows, h) ==
    LET members == SelectSeq(rows, LAMBDA r : r.hour = h)
    IN [i \in 1..Len(members) |-> members[i].value]
GroupKeys(rows) == {rows[i].hour : i \in 1..Len(rows)}

\* Series.quantile(k/4) with linear interpolation, and median() for k = 2, of
\* a non-empty group; the result is held in quarters to stay in the integers
Quantile4(values, k) ==
    LET sorted == SortValues(values)
        pos4   == (Len(sorted) - 1) * k
        lo     == pos4 \div 4
        frac4  == pos4 % 4
    IN IF frac4 = 0 THEN 4 * sorted[lo + 1]
       ELSE 4 * sorted[lo + 1] + frac4 * (sorted[lo + 2] - sorted[lo + 1])

\* line 93: df_filtered.groupby("hour")["value"].median(): one entry per group
HourlyMedians(rows) == [h \in GroupKeys(rows) |-> Quantile4(GroupValues(rows, h), 2)]
\* lines 95-96: idxmax and idxmin, the first label of the extreme value
IdxMax(series) ==
    MinOf({h \in DOMAIN series : series[h] = MaxOf({series[g] : g \in DOMAIN series})})
IdxMin(series) ==
    MinOf({h \in DOMAIN series : series[h] = MinOf({series[g] : g \in DOMAIN series})})
\* lines 137-146: groupby("hour").agg(median, q25, q75).reset_index(): one row
\* per group, in key order
HourlyStats(rows) ==
    LET keys == SortedSeqOf(GroupKeys(rows))
    IN [i \in 1..Len(keys) |->
           [hour   |-> keys[i],
            median |-> Quantile4(GroupValues(rows, keys[i]), 2),
            q25    |-> Quantile4(GroupValues(rows, keys[i]), 1),
            q75    |-> Quantile4(GroupValues(rows, keys[i]), 3)]]

\* lines 51-61: load_data, then st.stop() on an empty frame
LoadData ==
    /\ app_pc = "load"
    /\ df' = IF store.exists THEN store.df ELSE DataFrame(<<>>)
    /\ app_pc' = IF IsEmptyFrame(df') THEN "stopped" ELSE "time"
    /\ UNCHANGED <<limVars, runVars, days_option, max_date, cutoff_date,
                   df_filtered, hourly_means, peak_hour, cleanest_hour, hourly_stats>>

\* lines 63-70
TimeHandling ==
    /\ app_pc = "time"
    /\ df' = [columns |-> df.columns \cup {"timestamp_npt", "hour", "date_str"},
              rows |-> [i \in 1..Len(df.rows) |-> WithLocalTime(df.rows[i])]]
    /\ app_pc' = "sidebar"
    /\ UNCHANGED <<limVars, runVars, days_option, max_date, cutoff_date,
                   df_filtered, hourly_means, peak_hour, cleanest_hour, hourly_stats>>

\* lines 72-85: the selected period and the trailing-window filter
SelectPeriod ==
    /\ app_pc = "sidebar"
    /\ \E option \in {"Last 7 Days", "Last 14 Days"} :
         LET latest == MaxOf({df.rows[i].timestamp_npt : i \in 1..Len(df.rows)})
             cutoff == latest - CutoffDays(option) * DAY_SECONDS
         IN /\ days_option' = option
            /\ max_date' = latest
            /\ cutoff_date' = cutoff
            /\ df_filtered' = TrailingRows(df.rows, cutoff)
    /\ app_pc' = "kpi"
    /\ UNCHANGED <<limVars, runVars, df, hourly_means, peak_hour, cleanest_hour,
                   hourly_stats>>

\* lines 87-96: the per-hour medians and their extremes
KeyMetrics ==
    /\ app_pc = "kpi"
    /\ hourly_means' = HourlyMedians(df_filtered)
    /\ peak_hour' = IdxMax(hourly_means')
    /\ cleanest_hour' = IdxMin(hourly_means')
    /\ app_pc' = "plot"
    /\ UNCHANGED <<limVars, runVars, df, days_option, max_date, cutoff_date,
                   df_filtered, hourly_stats>>

\* lines 135-146: the table behind the diurnal plot
DiurnalPlot ==
    /\ app_pc = "plot"
    /\ hourly_stats' = HourlyStats(df_filtered)
    /\ app_pc' = "done"
    /\ UNCHANGED <<limVars, runVars, df, days_option, max_date, cutoff_date,
                   df_filtered, hourly_means, peak_hour, cleanest_hour>>

\* 2024-01-01T00:00Z, a UTC midnight
Jan1 == T0
AppInstants ==
    {Jan1, Jan1 + 6 * HOUR_SECONDS, Jan1 + 15 * 60,
     Jan1 + 6 * HOUR_SECONDS - 7 * DAY_SECONDS,
     Jan1 + 6 * HOUR_SECONDS - 14 * DAY_SECONDS}
StoredRow(t, v) ==
    [timestamp_utc |-> Timestamp(t), value |-> v, sensor_id |-> 1,
     location |-> "A", latitude |-> 27, longitude |-> 85]
AppRows == {StoredRow(t, v) : t \in AppInstants, v \in {10, 50}}
\* the files the ingestion script can have left: none, or a table of valid rows
AppFiles ==
    {NoFile} \cup
    {File([columns |-> RecordColumns, rows |-> rows]) :
        rows \in UNION {[1..n -> AppRows] : n \in 0..MaxAppRows}}

InitApp ==
    /\ InitLimiter
    /\ end_date = now /\ pc = "idle" /\ page = 1 /\ locations = <<>>
    /\ sensors = <<>> /\ sensor_idx = 0 /\ records = <<>> /\ error = "none"
    /\ served = <<>> /\ run = 1 /\ writes = 0
    /\ locationsLeft = 0 /\ rowsLeft = 0
    /\ store \in AppFiles
    /\ storeAtStart = store
    /\ app_pc = "load"
    /\ df = DataFrame(<<>>)
    /\ days_option = "Last 7 Days"
    /\ max_date = 0
    /\ cutoff_date = 0
    /\ df_filtered = <<>>
    /\ hourly_means = <<>>
    /\ peak_hour = 0
    /\ cleanest_hour = 0
    /\ hourly_stats = <<>>
NextApp == LoadData \/ TimeHandling \/ SelectPeriod \/ KeyMetrics \/ DiurnalPlot
SpecApp == InitApp /\ [][NextApp]_vars

(***************************************************************************)
(* Properties of the dashboard's aggregation                               *)
(***************************************************************************)
StatHours == {hourly_stats[i].hour : i \in 1..Len(hourly_stats)}

\* C6: for a non-empty table and either window, hourly_stats and hourly_means
\* hold exactly 24 buckets, one for every local hour 0..23.
AggregationCompleteness ==
    /\ app_pc \in {"plot", "done"} => DOMAIN hourly_means = 0..23
    /\ app_pc = "done" => Len(hourly_stats) = 24 /\ StatHours = 0..23

\* the loaded rows that belong to the bucket of local hour h: local time is
\* UTC + 5 h 45 min, the anchor is the latest local time in the table
LocalSeconds(r) == r.timestamp_utc.t + 20700
AnchorSeconds == MaxOf({LocalSeconds(store.df.rows[i]) : i \in 1..Len(store.df.rows)})
WindowSeconds == IF days_option = "Last 7 Days" THEN 7 * 86400 ELSE 14 * 86400
Members(h) ==
    SelectSeq(store.df.rows,
              LAMBDA r : /\ LocalSeconds(r) > AnchorSeconds - WindowSeconds
                         /\ (LocalSeconds(r) \div 3600) % 24 = h)

\* C7: with the anchor at the latest local timestamp of the table, a row is in
\* the aggregate iff its local timestamp is strictly after anchor - window, and
\* it is in exactly one bucket, that of the hour of day of its local timestamp:
\* the filtered frame holds as many rows as the 24 buckets together, each hour
\* has a group iff it has a member, and a group's median is that of its members.
DiurnalBucketing ==
    /\ app_pc \in {"kpi", "plot", "done"} =>
         /\ max_date = AnchorSeconds
         /\ Len(df_filtered) = SeqSum([h \in 1..24 |-> Len(Members(h - 1))])
         /\ \A i \in 1..Len(df_filtered) :
              /\ df_filtered[i].timestamp_npt > AnchorSeconds - WindowSeconds
              /\ Count(df_filtered, df_filtered[i])
                   = Count(Members(df_filtered[i].hour),
                           StoredRow(df_filtered[i].timestamp_utc.t, df_filtered[i].value))
    /\ app_pc \in {"plot", "done"} =>
         \A h \in 0..23 :
            /\ h \in DOMAIN hourly_means <=> Members(h) # <<>>
            /\ Members(h) # <<>> =>
                 hourly_means[h] = Quantile4([i \in 1..Len(Members(h)) |-> Members(h)[i].value], 2)
    /\ app_pc = "done" =>
         /\ StatHours = {h \in 0..23 : Members(h) # <<>>}
         /\ \A i \in 1..Len(hourly_stats) :
              hourly_stats[i].median = hourly_means[hourly_stats[i].hour]

\* the example of the specification: records at 2024-01-01T00:00Z (10) and
\* 06:00Z (50) under the 14-day window fall in hours 5 and 11 and nowhere else
DiurnalExample ==
    /\ app_pc = "done"
    /\ days_option = "Last 14 Days"
    /\ store.df.rows = <<StoredRow(Jan1, 10), StoredRow(Jan1 + 6 * HOUR_SECONDS, 50)>>
    /\ hourly_stats = <<[hour |-> 5, median |-> 40, q25 |-> 40, q75 |-> 40],
                        [hour |-> 11, median |-> 200, q25 |-> 200, q75 |-> 200]>>

====
